---- MODULE Spec2Model ----
(***************************************************************************)
(* Daily Scheduler (src/app.py): a Streamlit script that is re-executed    *)
(* top to bottom on every user interaction.  The session state (the store  *)
(* `schedules`, `employees_df`, `prefill_resources`) survives from one     *)
(* script pass to the next; everything else is recomputed by the pass.     *)
(*                                                                         *)
(* Line 125 of src/app.py is not indented under the `with col1:` of line   *)
(* 124.  The model reads lines 125-133 as the body of that block, the only *)
(* reading under which the script has any behaviour at all.                *)
(*                                                                         *)
(* Python and JSON values are tagged tuples, the tag first:                *)
(*   <<"None">>  <<"str", s>>  <<"float", n>>  <<"int", n>>  <<"nan">>     *)
(*   <<"list", items>>  <<"dict", items>>, the items of a dict being the   *)
(*   sequence of its <<key, value>> pairs in insertion order.              *)
(* Hours are counted in half hours (the number_input step), so the float   *)
(* 8.0 is <<"float", 16>>.  The dashes of the source's labels and of its   *)
(* placeholder row are written "-".                                        *)
(***************************************************************************)
EXTENDS Integers, Sequences, FiniteSets, TLC

(***************************************************************************)
(* Python values                                                           *)
(***************************************************************************)
PyNone == <<"None">>
PyNaN == <<"nan">>
PyStr(s) == <<"str", s>>
PyFloat(n) == <<"float", n>>
PyInt(n) == <<"int", n>>
PyList(items) == <<"list", items>>
PyDict(items) == <<"dict", items>>

IsDict(v) == v[1] = "dict"
IsList(v) == v[1] = "list"

\* bool(v): the values Python treats as false
Truthy(v) ==
    CASE v[1] = "None" -> FALSE
      [] v[1] = "str" -> v[2] # ""
      [] v[1] = "float" -> v[2] # 0
      [] v[1] = "int" -> v[2] # 0
      [] v[1] = "nan" -> TRUE
      [] v[1] = "list" -> v[2] # <<>>
      [] v[1] = "dict" -> v[2] # <<>>

\* the keys of a dict, in insertion order
Keys(d) == [i \in 1..Len(d[2]) |-> d[2][i][1]]

KeySet(d) == {d[2][i][1] : i \in 1..Len(d[2])}

\* d.get(k, default)
DictGet(d, k, default) ==
    IF k \in KeySet(d)
    THEN d[2][CHOOSE i \in 1..Len(d[2]) : d[2][i][1] = k][2]
    ELSE default

\* d[k] = v: an existing key keeps its slot, a new key is appended
DictSet(d, k, v) ==
    IF k \in KeySet(d)
    THEN PyDict([i \in 1..Len(d[2]) |-> IF d[2][i][1] = k THEN <<k, v>> ELSE d[2][i]])
    ELSE PyDict(Append(d[2], <<k, v>>))

RECURSIVE UpdateItems(_, _)
UpdateItems(d, items) ==
    IF items = <<>> THEN d
    ELSE UpdateItems(DictSet(d, Head(items)[1], Head(items)[2]), Tail(items))

\* d.update(other)
DictUpdate(d, other) == UpdateItems(d, other[2])

(***************************************************************************)
(* Dates: <<year, month, day>>                                             *)
(***************************************************************************)
Digit(n) == <<"0", "1", "2", "3", "4", "5", "6", "7", "8", "9">>[n + 1]

Pad2(n) == Digit((n \div 10) % 10) \o Digit(n % 10)

Pad4(n) == Pad2(n \div 100) \o Pad2(n % 100)

\* the_date.strftime('%Y%m%d')
Strftime(d) == Pad4(d[1]) \o Pad2(d[2]) \o Pad2(d[3])

\* the_date.isoformat()
IsoFormat(d) == Pad4(d[1]) \o "-" \o Pad2(d[2]) \o "-" \o Pad2(d[3])

IsLeap(y) == (y % 4 = 0 /\ y % 100 # 0) \/ y % 400 = 0

DaysInMonth(y, m) ==
    IF m = 2 THEN (IF IsLeap(y) THEN 29 ELSE 28)
    ELSE IF m \in {4, 6, 9, 11} THEN 30 ELSE 31

\* the_date - timedelta(days=1)
PrevDay(d) ==
    IF d[3] > 1 THEN <<d[1], d[2], d[3] - 1>>
    ELSE IF d[2] > 1 THEN <<d[1], d[2] - 1, DaysInMonth(d[1], d[2] - 1)>>
    ELSE <<d[1] - 1, 12, 31>>

(***************************************************************************)
(* Helpers of the script                                                   *)
(***************************************************************************)
\* schedule_id_for(work_order, the_date)
schedule_id_for(work_order, the_date) ==
    (IF work_order # "" THEN work_order ELSE "WO") \o "-" \o Strftime(the_date)

\* one row of the "Today's schedules" table (lines 57-70 and 74-87)
TableRow(rec, employee, role, booked) ==
    [Date |-> DictGet(rec, "schedule_date", PyNone),
     BU |-> DictGet(rec, "business_unit", PyNone),
     WorkOrder |-> DictGet(rec, "work_order_number", PyStr("")),
     JobDescription |-> DictGet(rec, "job_description", PyStr("")),
     Customer |-> DictGet(rec, "customer", PyStr("")),
     WorkType |-> DictGet(rec, "work_type", PyStr("")),
     ProjectManager |-> DictGet(rec, "project_manager", PyStr("")),
     Task |-> DictGet(rec, "task_information", PyStr("")),
     ProjectStatus |-> DictGet(rec, "project_status", PyStr("")),
     Employee |-> employee,
     Role |-> role,
     BookedHours |-> booked]

\* a loop body without the placeholder row of a record without resources
RowsOfRecord_NoPlaceholder(rec, target_date, bu) ==
    IF DictGet(rec, "schedule_date", PyNone) # PyStr(IsoFormat(target_date)) THEN <<>>
    ELSE IF DictGet(rec, "business_unit", PyNone) # PyStr(bu) THEN <<>>
    ELSE LET resources == DictGet(rec, "resources", PyList(<<>>))
         IN  IF ~Truthy(resources) THEN <<>>
             ELSE [i \in 1..Len(resources[2]) |->
                      TableRow(rec,
                               DictGet(resources[2][i], "EMPLOYEE_NAME", PyStr("")),
                               DictGet(resources[2][i], "ROLE_CODE", PyStr("")),
                               DictGet(resources[2][i], "BOOKED_HOURS", PyNone))]

\* the rows one record contributes (body of the loop, lines 51-87)
RowsOfRecord(rec, target_date, bu) ==
    IF DictGet(rec, "schedule_date", PyNone) # PyStr(IsoFormat(target_date)) THEN <<>>
    ELSE IF DictGet(rec, "business_unit", PyNone) # PyStr(bu) THEN <<>>
    ELSE LET resources == DictGet(rec, "resources", PyList(<<>>))
         IN  IF ~Truthy(resources)
             THEN <<TableRow(rec, PyStr("-"), PyStr("-"),
                             DictGet(rec, "hours_per_resource", PyNone))>>
             ELSE [i \in 1..Len(resources[2]) |->
                      TableRow(rec,
                               DictGet(resources[2][i], "EMPLOYEE_NAME", PyStr("")),
                               DictGet(resources[2][i], "ROLE_CODE", PyStr("")),
                               DictGet(resources[2][i], "BOOKED_HOURS", PyNone))]

RECURSIVE FlattenItems(_, _, _)
FlattenItems(items, target_date, bu) ==
    IF items = <<>> THEN <<>>
    ELSE RowsOfRecord(Head(items)[2], target_date, bu)
            \o FlattenItems(Tail(items), target_date, bu)

\* flatten_for_table(schedules, target_date, bu): the rows of the DataFrame
flatten_for_table(store, target_date, bu) == FlattenItems(store[2], target_date, bu)

(***************************************************************************)
(* JSON documents.  A file is <<"garbage">> (text json.load rejects) or a  *)
(* JSON value: <<"null">>, <<"string", s>>, <<"number", "real"|"int", n>>, *)
(* <<"NaN">>, <<"array", items>>, <<"object", <<name, value>>, ... >>.     *)
(***************************************************************************)
RECURSIVE JsonDumps(_)
\* json.dumps(v, indent=2)
JsonDumps(v) ==
    CASE v[1] = "None" -> <<"null">>
      [] v[1] = "str" -> <<"string", v[2]>>
      [] v[1] = "float" -> <<"number", "real", v[2]>>
      [] v[1] = "int" -> <<"number", "int", v[2]>>
      [] v[1] = "nan" -> <<"NaN">>
      [] v[1] = "list" -> <<"array", [i \in 1..Len(v[2]) |-> JsonDumps(v[2][i])]>>
      [] v[1] = "dict" ->
            <<"object", [i \in 1..Len(v[2]) |-> <<v[2][i][1], JsonDumps(v[2][i][2])>>]>>

RECURSIVE JsonValue(_)
\* the Python value json.load builds for a parsed JSON value; a repeated
\* member name of an object keeps its first slot and its last value
JsonValue(j) ==
    CASE j[1] = "null" -> PyNone
      [] j[1] = "string" -> PyStr(j[2])
      [] j[1] = "number" -> (IF j[2] = "real" THEN PyFloat(j[3]) ELSE PyInt(j[3]))
      [] j[1] = "NaN" -> PyNaN
      [] j[1] = "array" -> PyList([i \in 1..Len(j[2]) |-> JsonValue(j[2][i])])
      [] j[1] = "object" ->
            LET members == [i \in 1..Len(j[2]) |-> <<j[2][i][1], JsonValue(j[2][i][2])>>]
            IN  IF \A a, b \in 1..Len(j[2]) : j[2][a][1] = j[2][b][1] => a = b
                THEN PyDict(members)
                ELSE UpdateItems(PyDict(<<>>), members)

\* json.load(file) raises (JSONDecodeError) on text that is not JSON
JsonLoadRaises(file) == file[1] = "garbage"

\* an export without the {"schedules": ...} envelope
ExportDocument_Bare(store) == JsonDumps(store)

\* the export button (lines 268-270)
ExportDocument(store) == JsonDumps(PyDict(<< <<"schedules", store>> >>))

\* an import that takes an object without `schedules` as the schedules
ImportFile_AnyObject(store, file) ==
    IF JsonLoadRaises(file)
    THEN [schedules |-> store, msg |-> <<"error", "Failed to import JSON">>]
    ELSE LET data == JsonValue(file)
         IN  IF IsDict(data) /\ IsDict(DictGet(data, "schedules", PyNone))
             THEN [schedules |-> DictUpdate(store, DictGet(data, "schedules", PyNone)),
                   msg |-> <<"success", "Schedules imported into memory.">>]
             ELSE IF IsDict(data) /\ "schedules" \notin KeySet(data)
             THEN [schedules |-> DictUpdate(store, data),
                   msg |-> <<"success", "Schedules imported into memory.">>]
             ELSE [schedules |-> store,
                   msg |-> <<"error", "JSON missing 'schedules' object.">>]

\* an import that replaces the store by the document's schedules
ImportFile_Replaces(store, file) ==
    IF JsonLoadRaises(file)
    THEN [schedules |-> store, msg |-> <<"error", "Failed to import JSON">>]
    ELSE LET data == JsonValue(file)
         IN  IF IsDict(data) /\ IsDict(DictGet(data, "schedules", PyNone))
             THEN [schedules |-> DictGet(data, "schedules", PyNone),
                   msg |-> <<"success", "Schedules imported into memory.">>]
             ELSE [schedules |-> store,
                   msg |-> <<"error", "JSON missing 'schedules' object.">>]

\* the import block (lines 273-282) applied to a store: the store it leaves
\* and the message it shows
ImportFile(store, file) ==
    IF JsonLoadRaises(file)
    THEN [schedules |-> store, msg |-> <<"error", "Failed to import JSON">>]
    ELSE LET data == JsonValue(file)
         IN  IF IsDict(data) /\ IsDict(DictGet(data, "schedules", PyNone))
             THEN [schedules |-> DictUpdate(store, DictGet(data, "schedules", PyNone)),
                   msg |-> <<"success", "Schedules imported into memory.">>]
             ELSE [schedules |-> store,
                   msg |-> <<"error", "JSON missing 'schedules' object.">>]

(***************************************************************************)
(* DataFrames: [columns |-> sequence of names, rows |-> sequence of rows],  *)
(* a row being a function from the column names to cells (Python values).  *)
(***************************************************************************)
DataFrame(columns, rows) == [columns |-> columns, rows |-> rows]

\* df.empty
DfEmpty(df) == df.rows = <<>> \/ df.columns = <<>>

\* r.get(col, default) on a row of a DataFrame
RowGet(r, col, default) == IF col \in DOMAIN r THEN r[col] ELSE default

IsNumber(v) == v[1] \in {"float", "int", "nan"}

ResourceColumns == <<"EMPLOYEE_ID", "EMPLOYEE_NAME", "ROLE_CODE", "BOOKED_HOURS">>

Range(seq) == {seq[i] : i \in 1..Len(seq)}

\* pd.DataFrame(dicts)[ResourceColumns] (line 213): the columns of the frame
\* are the keys that occur in the dicts; a key a dict lacks is NaN in its
\* row, and so is a None in a column whose other cells are all numbers
ResourceFrame(dicts) ==
    LET present == UNION {KeySet(dicts[i]) : i \in 1..Len(dicts)}
        column(c) == {DictGet(dicts[i], c, PyNaN) : i \in 1..Len(dicts)}
        numeric(c) == /\ \A v \in column(c) : IsNumber(v) \/ v = PyNone
                      /\ \E v \in column(c) : IsNumber(v)
        cell(d, c) == LET v == DictGet(d, c, PyNaN)
                      IN  IF v = PyNone /\ numeric(c) THEN PyNaN ELSE v
    IN  DataFrame(ResourceColumns,
                  [i \in 1..Len(dicts) |->
                      [c \in Range(ResourceColumns) |-> cell(dicts[i], c)]])

\* selecting ResourceColumns raises KeyError when a column is in no dict
ResourceFrameRaises(dicts) ==
    ~(Range(ResourceColumns) \subseteq UNION {KeySet(dicts[i]) : i \in 1..Len(dicts)})

(***************************************************************************)
(* Employees (lines 26-33, 100-111, 165-176)                               *)
(***************************************************************************)
Employee(id, name, role, bu, status) ==
    [EMPLOYEE_ID |-> PyStr(id), EMPLOYEE_NAME |-> PyStr(name), ROLE_CODE |-> PyStr(role),
     BUSINESS_UNIT |-> PyStr(bu), STATUS |-> PyStr(status)]

EmployeeColumns == <<"EMPLOYEE_ID", "EMPLOYEE_NAME", "ROLE_CODE", "BUSINESS_UNIT", "STATUS">>

\* the default sample employees (lines 28-33)
SampleEmployees ==
    DataFrame(EmployeeColumns,
              <<Employee("E-SAMG", "Sam G", "FLM", "DWW", "ACTIVE"),
                Employee("E-CHRISB", "Chris B", "LM", "DWW", "ACTIVE"),
                Employee("E-JAKEA", "Jake A", "LM", "DWW", "ACTIVE"),
                Employee("E-ETHANP", "Ethan P", "TRLM", "DWW", "ACTIVE")>>)

BUSINESS_UNITS == <<"DWW", "Connections", "Lines", "Civil", "Faults">>

\* s.upper(), on the status strings the employee tables contain
Upper(s) == IF s = "active" THEN "ACTIVE" ELSE s

\* ebu (line 171): the ACTIVE employees of the selected business unit
ActiveOfUnit(df, bu) ==
    SelectSeq(df.rows, LAMBDA r : r.BUSINESS_UNIT = PyStr(bu)
                                   /\ Upper(r.STATUS[2]) = "ACTIVE")

\* ebu["Label"] (line 174)
Label(r) == r.EMPLOYEE_NAME[2] \o " - "
               \o (IF r.ROLE_CODE = PyNaN THEN "" ELSE r.ROLE_CODE[2])

\* default_labels (line 175)
DefaultLabels(bu) ==
    IF bu = "DWW" THEN {"Sam G - FLM", "Chris B - LM", "Jake A - LM", "Ethan P - TRLM"}
    ELSE {}

\* st.multiselect raises StreamlitAPIException when a default is no option
MultiselectRaises(options, default) == ~(default \subseteq options)

\* base_selected built from the current selection (lines 183-185)
SelectionFrame(ebu, selected_labels, hours_per_resource) ==
    LET chosen == SelectSeq(ebu, LAMBDA r : Label(r) \in selected_labels)
    IN  IF chosen = <<>>
        THEN DataFrame(<<"EMPLOYEE_ID", "EMPLOYEE_NAME", "ROLE_CODE">>, <<>>)
        ELSE DataFrame(ResourceColumns,
                       [i \in 1..Len(chosen) |->
                           [c \in Range(ResourceColumns) |->
                               IF c = "BOOKED_HOURS" THEN PyFloat(hours_per_resource)
                               ELSE chosen[i][c]]])

\* base_selected when there are no employees (line 169)
NoEmployeesFrame == DataFrame(ResourceColumns, <<>>)

(***************************************************************************)
(* The form (lines 122-159): the names the script binds to widget values.  *)
(***************************************************************************)
PROJECT_STATUS_OPTIONS ==
    <<"Scheduled", "De-energised", "Energised", "On Hold", "Cancelled", "Completed">>

SCHEDULE_STATUS == <<"SCHEDULED", "CANCELLED", "COMPLETED">>

\* the widgets' default values
DefaultForm ==
    [work_order_number |-> "TC4216033",
     customer_work_type |-> "VEC - Capital - Non Contestable",
     project_manager |-> "John Donald",
     job_description |-> "Residential Subdivision work. Milldale 7A.",
     task_information |-> "Cabling/Installing Tuds/Jointing",
     project_status |-> PROJECT_STATUS_OPTIONS[2],
     resources_booked_desc |-> "8 hr/resource",
     hours_per_resource |-> 16,
     schedule_status |-> SCHEDULE_STATUS[1],
     notes |-> ""]

\* str(v) of a cell
PyStrOf(v) ==
    CASE v[1] = "str" -> v[2]
      [] v[1] = "None" -> "None"
      [] v[1] = "nan" -> "nan"
      [] OTHER -> "number"

\* float(v or 0.0) (line 246)
FloatOrZero(v) ==
    IF ~Truthy(v) THEN PyFloat(0)
    ELSE IF v[1] = "int" THEN PyFloat(v[2])
    ELSE v

\* one entry of payload["resources"] (lines 242-247)
ResourceEntry(r, hours_per_resource) ==
    PyDict(<< <<"EMPLOYEE_ID", PyStr(PyStrOf(RowGet(r, "EMPLOYEE_ID", PyStr(""))))>>,
              <<"EMPLOYEE_NAME", PyStr(PyStrOf(RowGet(r, "EMPLOYEE_NAME", PyStr(""))))>>,
              <<"ROLE_CODE", PyStr(PyStrOf(RowGet(r, "ROLE_CODE", PyStr(""))))>>,
              <<"BOOKED_HOURS",
                FloatOrZero(RowGet(r, "BOOKED_HOURS", PyFloat(hours_per_resource)))>> >>)

\* the payload of a save (lines 223-247); the names customer and work_type
\* are read from the script's namespace, which is the form's
Payload(sid, the_date, bu, f, edited_df) ==
    PyDict(<< <<"schedule_id", PyStr(sid)>>,
              <<"schedule_date", PyStr(IsoFormat(the_date))>>,
              <<"business_unit", PyStr(bu)>>,
              <<"work_order_number", PyStr(f.work_order_number)>>,
              <<"job_description", PyStr(f.job_description)>>,
              <<"customer", PyStr(f.customer)>>,
              <<"work_type", PyStr(f.work_type)>>,
              <<"project_manager", PyStr(f.project_manager)>>,
              <<"task_information", PyStr(f.task_information)>>,
              <<"project_status", PyStr(f.project_status)>>,
              <<"resources_booked_desc", PyStr(f.resources_booked_desc)>>,
              <<"hours_per_resource", PyFloat(f.hours_per_resource)>>,
              <<"status", PyStr(f.schedule_status)>>,
              <<"notes", PyStr(f.notes)>>,
              <<"resources",
                PyList(IF DfEmpty(edited_df) THEN <<>>
                       ELSE [i \in 1..Len(edited_df.rows) |->
                                ResourceEntry(edited_df.rows[i], f.hours_per_resource)])>> >>)

\* the names the payload reads (lines 224-237)
PayloadNames ==
    {"work_order_number", "job_description", "customer", "work_type", "project_manager",
     "task_information", "project_status", "resources_booked_desc", "hours_per_resource",
     "schedule_status", "notes"}

\* evaluating the payload raises NameError when one of them is unbound
PayloadRaises(f) == ~(PayloadNames \subseteq DOMAIN f)

(***************************************************************************)
(* The inputs the user can give in one script pass                         *)
(***************************************************************************)
Dates == {<<2024, 2, 29>>, <<2024, 3, 1>>}

Units == {BUSINESS_UNITS[1], BUSINESS_UNITS[3]}

SaveButtons == {"left_submit", "right_save"}

BlankWorkOrderForm == [DefaultForm EXCEPT !.work_order_number = ""]

SparseForm == [DefaultForm EXCEPT !.job_description = "", !.hours_per_resource = 15]

\* the button pressed in a pass and the form values the pass reads; a pass
\* that saves nothing and copies nothing reads no form value
Presses ==
    {<<"none", DefaultForm>>, <<"export", DefaultForm>>, <<"right_save", DefaultForm>>}
        \cup ({"copy_prev"} \X {DefaultForm, BlankWorkOrderForm})
        \cup ({"left_submit"} \X {DefaultForm, BlankWorkOrderForm, SparseForm})

LinesEmployees ==
    DataFrame(EmployeeColumns,
              <<Employee("E-ANNL", "Ann L", "LM", "Lines", "active"),
                Employee("E-BOBK", "Bob K", "FLM", "Lines", "INACTIVE")>>)

\* the employees.csv uploads: none, an unreadable file, a file without the
\* needed columns, a header without rows, a table of the Lines unit
CsvUploads ==
    {<<>>, <<"unreadable">>,
     <<"csv", DataFrame(<<"EMPLOYEE_ID", "EMPLOYEE_NAME">>, <<>>)>>,
     <<"csv", DataFrame(EmployeeColumns, <<>>)>>,
     <<"csv", LinesEmployees>>}

JNull == <<"null">>
JStr(s) == <<"string", s>>
JReal(n) == <<"number", "real", n>>
JArr(items) == <<"array", items>>
JObj(members) == <<"object", members>>

ResourceJson(id, name, role, booked) ==
    JObj(<< <<"EMPLOYEE_ID", JStr(id)>>, <<"EMPLOYEE_NAME", JStr(name)>>,
            <<"ROLE_CODE", JStr(role)>>, <<"BOOKED_HOURS", booked>> >>)

RecordJson(wo, the_date, bu, job, resources) ==
    JObj(<< <<"schedule_id", JStr(wo \o "-" \o Strftime(the_date))>>,
            <<"schedule_date", JStr(IsoFormat(the_date))>>,
            <<"business_unit", JStr(bu)>>,
            <<"work_order_number", JStr(wo)>>,
            <<"job_description", JStr(job)>>,
            <<"customer", JStr("VEC")>>,
            <<"work_type", JStr("Capital")>>,
            <<"project_manager", JStr("John Donald")>>,
            <<"task_information", JStr("Jointing")>>,
            <<"project_status", JStr("Energised")>>,
            <<"resources_booked_desc", JStr("8 hr/resource")>>,
            <<"hours_per_resource", JReal(16)>>,
            <<"status", JStr("SCHEDULED")>>,
            <<"notes", JStr("")>>,
            <<"resources", JArr(resources)>> >>)

SamG == ResourceJson("E-SAMG", "Sam G", "FLM", JReal(16))
ChrisB == ResourceJson("E-CHRISB", "Chris B", "LM", JNull)
AnnL == JObj(<< <<"EMPLOYEE_ID", JStr("E-ANNL")>>, <<"EMPLOYEE_NAME", JStr("Ann L")>> >>)

\* one complete record, of the day before 2024-03-01
DocPrevDay ==
    JObj(<< <<"schedules",
              JObj(<< <<"TC4216033-20240229",
                        RecordJson("TC4216033", <<2024, 2, 29>>, "DWW", "Cabling",
                                   <<SamG, ChrisB>>)>> >>)>> >>)

\* the same id with other values, and records with one and with no resource
DocOther ==
    JObj(<< <<"schedules",
              JObj(<< <<"TC4216033-20240229",
                        RecordJson("TC4216033", <<2024, 2, 29>>, "Lines", "Poles", <<AnnL>>)>>,
                      <<"TC9-20240229",
                        RecordJson("TC9", <<2024, 2, 29>>, "DWW", "Trench", <<SamG>>)>>,
                      <<"TC4216033-20240301",
                        RecordJson("TC4216033", <<2024, 3, 1>>, "DWW", "Cabling", <<>>)>> >>)>> >>)

\* a record with two fields only
DocPartial ==
    JObj(<< <<"schedules",
              JObj(<< <<"X", JObj(<< <<"schedule_date", JStr("2024-03-01")>>,
                                     <<"business_unit", JStr("DWW")>> >>)>> >>)>> >>)

DocEmpty == JObj(<< <<"schedules", JObj(<<>>)>> >>)

WellFormedDocs == {DocPrevDay, DocOther, DocPartial, DocEmpty}

\* text that is no JSON, a top-level array, an object without `schedules`,
\* `schedules` that is an array
MalformedDocs ==
    {<<"garbage">>,
     JArr(<<JObj(<< <<"schedules", JObj(<<>>)>> >>)>>),
     JObj(<< <<"notSchedules", JObj(<<>>)>> >>),
     JObj(<< <<"schedules", JArr(<<JStr("TC4216033-20240229")>>)>> >>)}

\* the value of the import uploader: no file, or a file
Files == {<<>>} \cup {<<d>> : d \in WellFormedDocs \cup MalformedDocs}

(***************************************************************************)
(* State                                                                   *)
(***************************************************************************)
VARIABLES
    schedules,          \* st.session_state.schedules
    employees_df,       \* st.session_state.employees_df
    prefill_resources,  \* st.session_state.prefill_resources: <<>> is None, else <<df>>
    pc,                 \* the section of the script the pass is about to run
    selected_date,      \* the date_input of the pass
    selected_bu,        \* the business unit selectbox of the pass
    button,             \* the button whose press started the pass
    form,               \* the form values of the pass
    base_selected,      \* the table handed to the data editor
    edited,             \* the table the data editor returned
    readback,           \* the table the pass rendered: <<>> none, else <<rows>>
    json_data,          \* the document the pass exported: <<>> none, else <<doc>>
    file,               \* the import uploader's value in the pass: <<>> none, else <<doc>>
    msgs,               \* the messages the pass has shown
    exc,                \* the exception that ended the pass, "" if none
    prefill_at_start    \* history: prefill_resources as the pass found it

vars == <<schedules, employees_df, prefill_resources, pc, selected_date, selected_bu,
          button, form, base_selected, edited, readback, json_data, file, msgs, exc,
          prefill_at_start>>

session == <<schedules, employees_df, prefill_resources>>

inputs == <<selected_date, selected_bu, button, form, prefill_at_start>>

\* session state bootstrapping (lines 23-35); no pass has run yet
Init ==
    /\ schedules = PyDict(<<>>)
    /\ employees_df = SampleEmployees
    /\ prefill_resources = <<>>
    /\ pc = "idle"
    /\ selected_date = <<2024, 3, 1>>
    /\ selected_bu = BUSINESS_UNITS[1]
    /\ button = "none"
    /\ form = DefaultForm
    /\ base_selected = NoEmployeesFrame
    /\ edited = NoEmployeesFrame
    /\ readback = <<>>
    /\ json_data = <<>>
    /\ file = <<>>
    /\ msgs = <<>>
    /\ exc = ""
    /\ prefill_at_start = <<>>

\* an uncaught exception ends the pass where it is raised
Raise(name) == pc' = "done" /\ exc' = name

\* a user interaction starts a script pass with the widgets' values
Rerun ==
    /\ pc = "idle"
    /\ pc' = "sidebar"
    /\ selected_date' \in Dates
    /\ selected_bu' \in Units
    /\ \E p \in Presses : button' = p[1] /\ form' = p[2]
    /\ prefill_at_start' = prefill_resources
    /\ UNCHANGED <<session, base_selected, edited, readback, json_data, file, msgs, exc>>

\* the script's namespace does not outlive the pass, and the page the pass
\* rendered is replaced by the next pass
EndPass ==
    /\ pc = "done"
    /\ pc' = "idle"
    /\ selected_date' = <<2024, 3, 1>>
    /\ selected_bu' = BUSINESS_UNITS[1]
    /\ button' = "none"
    /\ form' = DefaultForm
    /\ base_selected' = NoEmployeesFrame
    /\ edited' = NoEmployeesFrame
    /\ readback' = <<>>
    /\ json_data' = <<>>
    /\ file' = <<>>
    /\ msgs' = <<>>
    /\ exc' = ""
    /\ prefill_at_start' = <<>>
    /\ UNCHANGED session

\* the employees.csv uploader (lines 100-111); an upload is the interaction
\* that starts its pass, so the pass of a button press brings no new table
Sidebar ==
    /\ pc = "sidebar"
    /\ pc' = "resources"
    /\ \E up \in (IF button = "none" THEN CsvUploads ELSE {<<>>}) :
          IF up = <<>> THEN UNCHANGED <<employees_df, msgs>>
          ELSE IF up[1] = "unreadable"
          THEN /\ msgs' = Append(msgs, <<"error", "Failed to read CSV">>)
               /\ UNCHANGED employees_df
          ELSE IF ~(Range(EmployeeColumns) \subseteq Range(up[2].columns))
          THEN /\ msgs' = Append(msgs, <<"error", "CSV must include columns">>)
               /\ UNCHANGED employees_df
          ELSE /\ employees_df' = up[2]
               /\ msgs' = Append(msgs, <<"success", "Employees loaded.">>)
    /\ UNCHANGED <<schedules, prefill_resources, inputs, base_selected, edited, readback,
                   json_data, file, exc>>

\* the labels the user has selected in the multiselect: the default ones, or,
\* in a pass that saves (no other pass reads the table), none or any one
Selections(options, default) ==
    {default} \cup (IF button \in SaveButtons THEN {{}} \cup {{o} : o \in options} ELSE {})

\* what the data editor returns for the table it is given: the table, or, in a
\* pass that saves, the table with the booked hours of its first row cleared
Edits(df) ==
    {df} \cup (IF button \in SaveButtons /\ ~DfEmpty(df) /\ "BOOKED_HOURS" \in Range(df.columns)
               THEN {[df EXCEPT !.rows[1].BOOKED_HOURS = cleared] : cleared \in {PyNone, PyNaN}}
               ELSE {})

\* a panel that reads the prefill and leaves it set
ConsumedPrefill_Kept(prefill) == prefill

\* st.session_state.prefill_resources = None  # consume once (line 181)
ConsumedPrefill(prefill) == <<>>

\* the resources panel (lines 165-193)
ResourcesPanel ==
    /\ pc = "resources"
    /\ IF DfEmpty(employees_df)
       THEN /\ base_selected' = NoEmployeesFrame
            /\ edited' \in Edits(base_selected')
            /\ msgs' = Append(msgs, <<"info", "No employees available.">>)
            /\ pc' = "copy_prev"
            /\ UNCHANGED <<prefill_resources, exc>>
       ELSE LET ebu == ActiveOfUnit(employees_df, selected_bu)
                options == {Label(ebu[i]) : i \in 1..Len(ebu)}
                warned == IF ebu = <<>>
                          THEN Append(msgs, <<"warning", "No ACTIVE employees found">>)
                          ELSE msgs
            IN  IF MultiselectRaises(options, DefaultLabels(selected_bu))
                THEN /\ Raise("StreamlitAPIException")
                     /\ msgs' = warned
                     /\ UNCHANGED <<prefill_resources, base_selected, edited>>
                ELSE /\ \E selected_labels \in Selections(options, DefaultLabels(selected_bu)) :
                          IF prefill_resources # <<>>
                          THEN /\ base_selected' = prefill_resources[1]
                               /\ prefill_resources' = ConsumedPrefill(prefill_resources)
                          ELSE /\ base_selected' = SelectionFrame(ebu, selected_labels,
                                                                  form.hours_per_resource)
                               /\ UNCHANGED prefill_resources
                     /\ edited' \in Edits(base_selected')
                     /\ msgs' = warned
                     /\ pc' = "copy_prev"
                     /\ UNCHANGED exc
    /\ UNCHANGED <<schedules, employees_df, inputs, readback, json_data, file>>

\* the "Copy previous day" action (lines 206-215)
CopyPrev ==
    /\ pc = "copy_prev"
    /\ IF button = "copy_prev" /\ form.work_order_number # ""
       THEN LET prev_id == schedule_id_for(form.work_order_number, PrevDay(selected_date))
                prev == DictGet(schedules, prev_id, PyNone)
            IN  IF ~Truthy(prev) \/ ~Truthy(DictGet(prev, "resources", PyNone))
                THEN /\ msgs' = Append(msgs, <<"warning", "No previous-day resources found">>)
                     /\ pc' = "save"
                     /\ UNCHANGED <<prefill_resources, exc>>
                ELSE IF ResourceFrameRaises(DictGet(prev, "resources", PyNone)[2])
                THEN /\ Raise("KeyError")
                     /\ UNCHANGED <<prefill_resources, msgs>>
                ELSE /\ prefill_resources' =
                            <<ResourceFrame(DictGet(prev, "resources", PyNone)[2])>>
                     /\ msgs' = Append(msgs, <<"success", "Copied resources">>)
                     /\ pc' = "save"
                     /\ UNCHANGED exc
       ELSE /\ pc' = "save"
            /\ UNCHANGED <<prefill_resources, msgs, exc>>
    /\ UNCHANGED <<schedules, employees_df, inputs, base_selected, edited, readback,
                   json_data, file>>

\* the save action (lines 217-249)
Save ==
    /\ pc = "save"
    /\ IF button \notin SaveButtons
       THEN /\ pc' = "readback"
            /\ UNCHANGED <<schedules, msgs, exc>>
       ELSE IF form.work_order_number = ""
       THEN /\ msgs' = Append(msgs, <<"error", "Work Order Number is required.">>)
            /\ pc' = "readback"
            /\ UNCHANGED <<schedules, exc>>
       ELSE IF PayloadRaises(form)
       THEN /\ Raise("NameError")
            /\ UNCHANGED <<schedules, msgs>>
       ELSE LET sid == schedule_id_for(form.work_order_number, selected_date)
            IN  /\ schedules' = DictSet(schedules, sid,
                                        Payload(sid, selected_date, selected_bu, form, edited))
                /\ msgs' = Append(msgs, <<"success", "Schedule saved in memory (POC).">>)
                /\ pc' = "readback"
                /\ UNCHANGED exc
    /\ UNCHANGED <<employees_df, prefill_resources, inputs, base_selected, edited, readback,
                   json_data, file>>

\* the readback table (lines 254-260)
Readback ==
    /\ pc = "readback"
    /\ pc' = "export"
    /\ readback' = <<flatten_for_table(schedules, selected_date, selected_bu)>>
    /\ msgs' = IF readback'[1] = <<>>
               THEN Append(msgs, <<"info", "No schedules saved for this day/BU yet.">>)
               ELSE msgs
    /\ UNCHANGED <<session, inputs, base_selected, edited, json_data, file, exc>>

\* the export button (lines 268-270)
Export ==
    /\ pc = "export"
    /\ pc' = "import"
    /\ json_data' = IF button = "export" THEN <<ExportDocument(schedules)>> ELSE <<>>
    /\ UNCHANGED <<session, inputs, base_selected, edited, readback, file, msgs, exc>>

\* the import uploader (lines 272-282); the pass ends after it
Import ==
    /\ pc = "import"
    /\ pc' = "done"
    /\ file' \in Files
    /\ IF file' = <<>>
       THEN UNCHANGED <<schedules, msgs>>
       ELSE LET imported == ImportFile(schedules, file'[1])
            IN  /\ schedules' = imported.schedules
                /\ msgs' = Append(msgs, imported.msg)
    /\ UNCHANGED <<employees_df, prefill_resources, inputs, base_selected, edited, readback,
                   json_data, exc>>

Next ==
    \/ Rerun
    \/ Sidebar
    \/ ResourcesPanel
    \/ CopyPrev
    \/ Save
    \/ Readback
    \/ Export
    \/ Import
    \/ EndPass

Spec == Init /\ [][Next]_vars

(***************************************************************************)
(* flatten_for_table on its own: every store of up to MaxRecords of the    *)
(* sample records, in every order, flattened for every date and unit.      *)
(***************************************************************************)
MaxRecords == 2

SampleItems ==
    {<<"TC1-20240229",
       JsonValue(RecordJson("TC1", <<2024, 2, 29>>, "DWW", "Cabling", <<SamG, ChrisB>>))>>,
     <<"TC2-20240229",
       JsonValue(RecordJson("TC2", <<2024, 2, 29>>, "DWW", "Trench", <<>>))>>,
     <<"TC3-20240229",
       JsonValue(RecordJson("TC3", <<2024, 2, 29>>, "Lines", "Poles", <<AnnL>>))>>,
     <<"TC4-20240301",
       JsonValue(RecordJson("TC4", <<2024, 3, 1>>, "DWW", "Cabling", <<SamG>>))>>,
     <<"X", JsonValue(JObj(<< <<"schedule_date", JStr("2024-03-01")>>,
                              <<"business_unit", JStr("DWW")>> >>))>>,
     <<"Y", JsonValue(JObj(<< <<"schedule_date", JStr("2024-02-29")>>,
                              <<"business_unit", JStr("DWW")>>,
                              <<"resources", JNull>> >>))>>}

SampleStores ==
    {PyDict(items) : items \in
        {q \in UNION {[1..n -> SampleItems] : n \in 0..MaxRecords} :
            \A a, b \in DOMAIN q : q[a][1] = q[b][1] => a = b}}

FlattenInit ==
    /\ schedules \in SampleStores
    /\ employees_df = SampleEmployees
    /\ prefill_resources = <<>>
    /\ pc = "idle"
    /\ selected_date = <<2024, 3, 1>>
    /\ selected_bu = BUSINESS_UNITS[1]
    /\ button = "none"
    /\ form = DefaultForm
    /\ base_selected = NoEmployeesFrame
    /\ edited = NoEmployeesFrame
    /\ readback = <<>>
    /\ json_data = <<>>
    /\ file = <<>>
    /\ msgs = <<>>
    /\ exc = ""
    /\ prefill_at_start = <<>>

ApplyFlatten ==
    /\ pc = "idle"
    /\ pc' = "export"
    /\ selected_date' \in Dates
    /\ selected_bu' \in Units
    /\ readback' = <<flatten_for_table(schedules, selected_date', selected_bu')>>
    /\ UNCHANGED <<session, button, form, base_selected, edited, json_data, file, msgs, exc,
                   prefill_at_start>>

SpecFlatten == FlattenInit /\ [][ApplyFlatten]_vars

(***************************************************************************)
(* Properties                                                              *)
(***************************************************************************)
\* C1: every stored record has its required fields present and non-empty:
\* business unit, work order number, job description, project manager, task
\* information, project status, at least one resource, hours per resource.
C1_StoredRecordsComplete ==
    \A i \in 1..Len(schedules[2]) :
        LET rec == schedules[2][i][2]
        IN  /\ \A k \in {"business_unit", "work_order_number", "job_description",
                         "project_manager", "task_information", "project_status"} :
                  /\ DictGet(rec, k, PyNone)[1] = "str"
                  /\ DictGet(rec, k, PyNone)[2] # ""
            /\ IsList(DictGet(rec, "resources", PyNone))
            /\ DictGet(rec, "resources", PyNone)[2] # <<>>
            /\ DictGet(rec, "hours_per_resource", PyNone) # PyNone

\* C2: a save of a work order and date leaves exactly one entry under the
\* derived id, carrying the values of that save (the later save wins); the
\* store grows by that entry at most and no other entry changes.
C2_LastWriteWins ==
    [][(pc = "save" /\ button \in SaveButtons /\ form.work_order_number # "") =>
         LET sid == schedule_id_for(form.work_order_number, selected_date)
             rec == DictGet(schedules', sid, PyNone)
         IN  /\ Cardinality({i \in 1..Len(schedules'[2]) : schedules'[2][i][1] = sid}) = 1
             /\ DictGet(rec, "business_unit", PyNone) = PyStr(selected_bu)
             /\ DictGet(rec, "job_description", PyNone) = PyStr(form.job_description)
             /\ DictGet(rec, "project_manager", PyNone) = PyStr(form.project_manager)
             /\ DictGet(rec, "task_information", PyNone) = PyStr(form.task_information)
             /\ DictGet(rec, "project_status", PyNone) = PyStr(form.project_status)
             /\ DictGet(rec, "hours_per_resource", PyNone) = PyFloat(form.hours_per_resource)
             /\ DictGet(rec, "status", PyNone) = PyStr(form.schedule_status)
             /\ DictGet(rec, "notes", PyNone) = PyStr(form.notes)
             /\ Len(schedules'[2]) =
                   Len(schedules[2]) + (IF sid \in KeySet(schedules) THEN 0 ELSE 1)
             /\ \A k \in KeySet(schedules) \ {sid} :
                   DictGet(schedules', k, PyNone) = DictGet(schedules, k, PyNone)
      ]_vars

\* C3: a save of work order W on date D stores the record under the key
\* W-YYYYMMDD, with schedule_id that key and schedule_date D; the key is a
\* function of (W, D) that tells different work orders and dates apart.
C3_IdRule ==
    [][(pc = "save" /\ button \in SaveButtons /\ form.work_order_number # "") =>
         LET key == form.work_order_number \o "-" \o Pad4(selected_date[1])
                       \o Pad2(selected_date[2]) \o Pad2(selected_date[3])
         IN  /\ key \in KeySet(schedules')
             /\ DictGet(DictGet(schedules', key, PyNone), "schedule_id", PyNone) = PyStr(key)
             /\ DictGet(DictGet(schedules', key, PyNone), "schedule_date", PyNone)
                   = PyStr(IsoFormat(selected_date))
             /\ \A w1, w2 \in {"TC4216033", "TC9", "TC9-20240229"} :
                   \A d1, d2 \in Dates \cup {<<2024, 1, 11>>, <<2024, 11, 1>>} :
                       schedule_id_for(w1, d1) = schedule_id_for(w2, d2)
                           => w1 = w2 /\ d1 = d2
      ]_vars

\* C4: an import of text that is no JSON, of a document that is no object,
\* that has no `schedules` member, or whose `schedules` is no object, shows
\* an error and leaves the store as it was.
C4_MalformedImportRejected ==
    [][(pc = "import" /\ file' # <<>>) =>
         LET doc == file'[1]
             wellFormed ==
                 /\ doc[1] = "object"
                 /\ \E i \in 1..Len(doc[2]) :
                       doc[2][i][1] = "schedules" /\ doc[2][i][2][1] = "object"
         IN  ~wellFormed =>
                 /\ schedules' = schedules
                 /\ Len(msgs') = Len(msgs) + 1
                 /\ msgs'[Len(msgs')][1] = "error"
      ]_vars

\* C4 witness: a malformed document was presented to a store that had entries.
C4_Witness ==
    /\ pc = "done"
    /\ exc = ""
    /\ file = <<JObj(<< <<"notSchedules", JObj(<<>>)>> >>)>>
    /\ schedules[2] # <<>>
    /\ msgs[Len(msgs)][1] = "error"

\* C5: an import of a well-formed document maps every id of the document to
\* the imported record and leaves every other id of the store with the record
\* it had; a document with no ids leaves the store as it was.
C5_ImportMerges ==
    [][(pc = "import" /\ file' # <<>> /\ file'[1][1] = "object") =>
         LET doc == file'[1]
         IN  \A m \in 1..Len(doc[2]) :
                 (doc[2][m][1] = "schedules" /\ doc[2][m][2][1] = "object") =>
                     LET members == doc[2][m][2][2]
                         ids == {members[i][1] : i \in 1..Len(members)}
                     IN  /\ \A i \in 1..Len(members) :
                               /\ members[i][1] \in KeySet(schedules')
                               /\ JsonDumps(DictGet(schedules', members[i][1], PyNone))
                                     = members[i][2]
                         /\ \A k \in KeySet(schedules) \ ids :
                               /\ k \in KeySet(schedules')
                               /\ DictGet(schedules', k, PyNone) = DictGet(schedules, k, PyNone)
                         /\ KeySet(schedules') = KeySet(schedules) \cup ids
                         /\ members = <<>> => schedules' = schedules
      ]_vars

\* C5 witness: a document was merged into a store that held an id the
\* document does not have, and an id the document has.
C5_Witness ==
    /\ pc = "done"
    /\ file = <<DocOther>>
    /\ {"X", "TC4216033-20240229", "TC9-20240229"} \subseteq KeySet(schedules)
    /\ Keys(schedules)[1] = "TC4216033-20240229"
    /\ Keys(schedules)[2] = "X"

\* C6: importing the exported document into an empty store gives a store with
\* the same (schedule id, record) pairs as the exported store.
C6_RoundTrip ==
    (pc = "import" /\ json_data # <<>>) =>
        LET back == ImportFile(PyDict(<<>>), json_data[1])
        IN  /\ back.msg[1] = "success"
            /\ Range(back.schedules[2]) = Range(schedules[2])
            /\ Len(back.schedules[2]) = Len(schedules[2])

\* C6 witness: a store of several records, one with a null value, was exported.
C6_Witness ==
    /\ pc = "import"
    /\ json_data # <<>>
    /\ {"X", "TC4216033-20240229", "TC4216033-20240301"} \subseteq KeySet(schedules)

\* C7: the table has max(1, number of resources) rows for every record of the
\* selected date and business unit and no other row; a record of that date and
\* unit without resources has one placeholder row.
C7_RowCount ==
    (pc = "export" /\ readback # <<>>) =>
        LET items == schedules[2]
            matching == {i \in 1..Len(items) :
                            /\ DictGet(items[i][2], "schedule_date", PyNone)
                                  = PyStr(IsoFormat(selected_date))
                            /\ DictGet(items[i][2], "business_unit", PyNone)
                                  = PyStr(selected_bu)}
            count(i) == LET r == DictGet(items[i][2], "resources", PyNone)
                        IN  IF IsList(r) THEN Len(r[2]) ELSE 0
            rows == readback[1]
        IN  /\ Len(rows) =
                  Cardinality(UNION {{<<i, j>> : j \in 1..(IF count(i) = 0 THEN 1 ELSE count(i))}
                                        : i \in matching})
            /\ Cardinality({n \in 1..Len(rows) : rows[n].Employee = PyStr("-")})
                  = Cardinality({i \in matching : count(i) = 0})
            /\ \A n \in 1..Len(rows) :
                  /\ rows[n].Date = PyStr(IsoFormat(selected_date))
                  /\ rows[n].BU = PyStr(selected_bu)

\* C7 witness: a table of a record with two resources and a record with none.
C7_Witness ==
    /\ pc = "export"
    /\ readback # <<>>
    /\ Len(readback[1]) = 3
    /\ Len(schedules[2]) = 2
    /\ \E n \in 1..3 : readback[1][n].Employee = PyStr("-")

\* C8: at the end of a script pass the table the pass rendered is
\* flatten_for_table of the store as the pass leaves it.
C8_ReadbackFresh ==
    (pc = "done" /\ readback # <<>>) =>
        readback[1] = flatten_for_table(schedules, selected_date, selected_bu)

\* C9: the resource entry a save builds for a row of the edited table has
\* BOOKED_HOURS equal to the record's hours_per_resource when the row's booked
\* hours are unspecified (no such column, or a null cell), and equal to the
\* row's own booked hours otherwise.
C9_BookedHoursFallback ==
    (pc = "save" /\ button \in SaveButtons /\ form.work_order_number # "") =>
        \A i \in 1..Len(edited.rows) :
            LET cell == RowGet(edited.rows[i], "BOOKED_HOURS", PyNone)
            IN  DictGet(ResourceEntry(edited.rows[i], form.hours_per_resource),
                        "BOOKED_HOURS", PyNone)
                  = IF cell \in {PyNone, PyNaN} THEN PyFloat(form.hours_per_resource) ELSE cell

\* C10 as stated: prefill_resources is set only by a copy-previous-day action
\* that finds a record of the work order on the previous date with resources
\* (otherwise the action leaves it and the store alone), and a pass that starts
\* with a prefill ends with prefill_resources None.
C10_PrefillConsumedByNextPass ==
    [][LET found ==
               /\ button = "copy_prev"
               /\ form.work_order_number # ""
               /\ LET prev == DictGet(schedules,
                                      form.work_order_number \o "-"
                                          \o Strftime(PrevDay(selected_date)),
                                      PyNone)
                  IN  /\ IsDict(prev)
                      /\ IsList(DictGet(prev, "resources", PyNone))
                      /\ DictGet(prev, "resources", PyNone)[2] # <<>>
       IN  /\ (prefill_resources' # prefill_resources /\ prefill_resources' # <<>>)
                  => pc = "copy_prev" /\ found
           /\ pc = "copy_prev" => schedules' = schedules
           /\ (pc = "copy_prev" /\ ~found) => prefill_resources' = prefill_resources
           /\ (pc' = "done" /\ prefill_at_start' # <<>>) => prefill_resources' = <<>>
      ]_vars

\* C10 amended: prefill_resources is set only by a copy-previous-day action
\* that finds a record of the work order on the previous date with resources
\* (otherwise the action leaves it and the store alone); a resources panel that
\* builds its table with employees loaded takes a set prefill as the table and
\* sets prefill_resources to None in the same step; a pass that starts with a
\* prefill ends with prefill_resources None unless its panel had no employees
\* or raised, or its own copy-previous-day action set a new prefill.
C10_PrefillConsumedByPanel ==
    [][LET found ==
               /\ button = "copy_prev"
               /\ form.work_order_number # ""
               /\ LET prev == DictGet(schedules,
                                      form.work_order_number \o "-"
                                          \o Strftime(PrevDay(selected_date)),
                                      PyNone)
                  IN  /\ IsDict(prev)
                      /\ IsList(DictGet(prev, "resources", PyNone))
                      /\ DictGet(prev, "resources", PyNone)[2] # <<>>
       IN  /\ (prefill_resources' # prefill_resources /\ prefill_resources' # <<>>)
                  => pc = "copy_prev" /\ found
           /\ pc = "copy_prev" => schedules' = schedules
           /\ (pc = "copy_prev" /\ ~found) => prefill_resources' = prefill_resources
           /\ (pc = "resources" /\ pc' = "copy_prev" /\ prefill_resources # <<>>
                   /\ ~DfEmpty(employees_df))
                  => prefill_resources' = <<>> /\ base_selected' = prefill_resources[1]
           /\ (pc' = "done" /\ prefill_at_start' # <<>>)
                  => \/ prefill_resources' = <<>>
                     \/ DfEmpty(employees_df')
                     \/ exc' = "StreamlitAPIException"
                     \/ /\ button' = "copy_prev"
                        /\ exc' = ""
                        /\ <<"success", "Copied resources">> \in Range(msgs')
      ]_vars

\* C10 witness: a pass that started with a prefill took it as the table of the
\* data editor and ended with prefill_resources None.
C10_Witness ==
    /\ pc = "done"
    /\ exc = ""
    /\ prefill_at_start # <<>>
    /\ prefill_resources = <<>>
    /\ base_selected = prefill_at_start[1]

====
